---- MODULE Spec2Model ----
(***************************************************************************)
(* State-machine model of RTC::PipeTransport                               *)
(* (worker/src/RTC/PipeTransport.cpp): the one-shot connect request, the   *)
(* outbound encrypt/send pipeline and the inbound classify / origin-check /*)
(* decrypt / parse / forward pipeline.                                     *)
(*                                                                         *)
(* A C++ pointer that may be nullptr is a sequence of length 0 or 1.       *)
(* A std::string holding a key is its content and its size().              *)
(***************************************************************************)
EXTENDS Integers, Sequences, FiniteSets, TLC

VARIABLES
    transports,       \* ids of the PipeTransport objects that were constructed
    listenIp,         \* this->listenIp            [ip, announcedIp]
    srtpKey,          \* this->srtpKey             (empty: SRTP disabled)
    udpSocket,        \* this->udpSocket           [localIp, localPort]
    tuple,            \* this->tuple               (<<>> is nullptr)
    srtpSendSession,  \* this->srtpSendSession     (<<>> is nullptr)
    srtpRecvSession,  \* this->srtpRecvSession     (<<>> is nullptr)
    bytesSent,        \* RTC::Transport::DataSent() accumulator
    bytesReceived,    \* RTC::Transport::DataReceived() accumulator
    connectedCalls,   \* number of RTC::Transport::Connected() calls
    accepted,         \* the request->Accept() calls: request and response
    pendingCb,        \* onSendCallback objects owned by the socket layer
    aborted,          \* MS_ABORT() was executed: the process is gone
    last              \* what the last operation was given and what it did

vars == << transports, listenIp, srtpKey, udpSocket, tuple, srtpSendSession,
           srtpRecvSession, bytesSent, bytesReceived, connectedCalls,
           accepted, pendingCb, aborted, last >>

----------------------------------------------------------------------------
(* Bounds of the model *)

\* cap on the sum of the byte counters of a transport
MaxBytes == 2

\* cap on the callbacks a socket holds at a time
MaxPending == 1

----------------------------------------------------------------------------
(* Program constants and the values the inputs are drawn from *)

SrtpMasterLength == 30

\* bytes the SRTP transform appends (AES_CM_128_HMAC_SHA1_80: 80-bit tag),
\* scaled to one unit of the byte counters
SrtpTagLength == 1

TransportIds == {"A", "B"}

IpA == "10.0.0.1"
IpB == "10.0.0.2"
Ip6 == "::1"
Ip6Long == "0:0:0:0:0:0:0:1"
AnnouncedIp == "203.0.113.1"

\* std::string values: the empty string, two keys of 30 bytes, one of 16
NoKey == [bytes |-> "", size |-> 0]
KeyA == [bytes |-> "a..a", size |-> SrtpMasterLength]
KeyB == [bytes |-> "b..b", size |-> SrtpMasterLength]
Key16 == [bytes |-> "c..c", size |-> 16]

LocalIpOf(t) == IF t = "A" THEN IpA ELSE IpB
LocalPortOf(t) == IF t = "A" THEN 5004 ELSE 5005
RandomKeyOf(t) == IF t = "A" THEN KeyA ELSE KeyB

\* a JSON member of the request: absent, present with a non-matching type,
\* or present with a value
Absent == [kind |-> "absent", val |-> <<>>]
WrongType == [kind |-> "other", val |-> <<>>]
Str(s) == [kind |-> "string", val |-> <<s>>]
Num(n) == [kind |-> "number", val |-> <<n>>]

IpFields == {Absent, WrongType, Str("notanip"), Str(IpB), Str(Ip6Long)}
PortFields == {Absent, Num(0), Num(LocalPortOf("B"))}
KeyFields == {Absent, WrongType, Str(Key16), Str(KeyB)}

\* the connect requests given to a transport on its own
Requests == [ip : IpFields, port : PortFields, srtpKey : KeyFields]

\* what the constructors and address conversions a connect calls may do
Faults == {"none", "sendSession", "recvSession", "family", "uv"}

NoRequest == [ip |-> Absent, port |-> Absent, srtpKey |-> Absent]

----------------------------------------------------------------------------
(* Collaborators of the transport that the file only calls *)

\* Utils::IP::NormalizeIp: throws on a string that is no IP, otherwise
\* rewrites it in canonical form
IsValidIp(s) == s \in {IpA, IpB, Ip6, Ip6Long}
NormalizeIp(s) == IF s = Ip6Long THEN Ip6 ELSE s

\* Utils::IP::GetFamily
GetFamily(s) ==
    IF s \in {IpA, IpB} THEN "AF_INET"
    ELSE IF s \in {Ip6, Ip6Long} THEN "AF_INET6"
    ELSE "AF_UNSPEC"

\* Utils::Json::IsPositiveInteger
IsPositiveInteger(f) == f.kind = "number" /\ f.val[1] > 0

\* RTC::SrtpSession: a direction and the master key it was created with
SrtpSession(type, key) == [type |-> type, key |-> key]

\* RTC::TransportTuple(udpSocket, remoteAddr)
TransportTuple(sock, ip, port) ==
    [localIp |-> sock.localIp, localPort |-> sock.localPort,
     remoteIp |-> ip, remotePort |-> port, protocol |-> "udp",
     localAnnouncedIp |-> ""]

\* TransportTuple::SetLocalAnnouncedIp
SetLocalAnnouncedIp(tp, ip) == [tp EXCEPT !.localAnnouncedIp = ip]

\* TransportTuple::FillJson
TupleFillJson(tp) ==
    [localIp |-> IF tp.localAnnouncedIp = "" THEN tp.localIp
                 ELSE tp.localAnnouncedIp,
     localPort |-> tp.localPort, protocol |-> tp.protocol,
     remoteIp |-> tp.remoteIp, remotePort |-> tp.remotePort]

\* TransportTuple::Compare: same socket, same remote address
TupleCompare(a, b) ==
    /\ a.localIp = b.localIp
    /\ a.localPort = b.localPort
    /\ a.protocol = b.protocol
    /\ a.remoteIp = b.remoteIp
    /\ a.remotePort = b.remotePort

----------------------------------------------------------------------------
(* The record of the last operation *)

NoLast ==
    [op |-> "none", t |-> "A", err |-> "", req |-> NoRequest, stage |-> "",
     response |-> <<>>, events |-> <<>>, dgram |-> <<>>,
     handed |-> <<>>, cb |-> <<>>, fwd |-> <<>>]

----------------------------------------------------------------------------
(* Members *)

\* PipeTransport::HasSrtp
HasSrtp(t) == srtpKey[t].size # 0

\* PipeTransport::IsConnected
IsConnected(t) == tuple[t] # <<>>

\* the bytes a transport has counted, in either direction
TotalBytes(t) == bytesSent[t] + bytesReceived[t]

----------------------------------------------------------------------------
(* Construction *)

\* PipeTransport::PipeTransport for the transports in ts; the others do not
\* exist and keep the members' default values
Constructed(ts) ==
    /\ transports = ts
    /\ \E ann \in [TransportIds -> {"", AnnouncedIp}] :
           listenIp = [t \in TransportIds |->
                          [ip |-> LocalIpOf(t),
                           announcedIp |-> IF t \in ts THEN ann[t] ELSE ""]]
    /\ \E enableSrtp \in [TransportIds -> BOOLEAN] :
           srtpKey = [t \in TransportIds |->
                         IF t \in ts /\ enableSrtp[t] THEN RandomKeyOf(t)
                         ELSE NoKey]
    /\ udpSocket = [t \in TransportIds |->
                       [localIp |-> LocalIpOf(t), localPort |-> LocalPortOf(t)]]
    /\ tuple = [t \in TransportIds |-> <<>>]
    /\ srtpSendSession = [t \in TransportIds |-> <<>>]
    /\ srtpRecvSession = [t \in TransportIds |-> <<>>]
    /\ bytesSent = [t \in TransportIds |-> 0]
    /\ bytesReceived = [t \in TransportIds |-> 0]
    /\ connectedCalls = [t \in TransportIds |-> 0]
    /\ accepted = [t \in TransportIds |-> <<>>]
    /\ pendingCb = [t \in TransportIds |-> 0]
    /\ aborted = FALSE
    /\ last = NoLast

Init == Constructed({"A"})

InitPair == Constructed({"A", "B"}) /\ \A t \in TransportIds : HasSrtp(t)

----------------------------------------------------------------------------
(* TRANSPORT_CONNECT *)

\* variant: the guard looks at the sending session instead of the tuple
ConnectAlreadyCalledBySession(t) == srtpSendSession[t] # <<>>

\* variant: no guard
ConnectAlreadyCalledNever(t) == FALSE

\* the guard "connect() already called"
ConnectAlreadyCalled(t) == tuple[t] # <<>>

\* the local variable `port`: initialised to 0 and not assigned afterwards
ConnectPort(req) == 0

\* the checks of the members "ip" and "port"; the thrown error or ""
ValidateIpPort(req) ==
    IF req.ip.kind # "string" THEN "TypeError"
    ELSE IF ~IsValidIp(req.ip.val[1]) THEN "TypeError"
    ELSE IF req.port.kind = "absent" \/ ~IsPositiveInteger(req.port) THEN "TypeError"
    ELSE ""

\* variant: a key given to a transport without SRTP is ignored
ValidateSrtpKeyIgnoringUnused(t, req) ==
    IF HasSrtp(t) /\ req.srtpKey.kind # "string" THEN "TypeError"
    ELSE IF HasSrtp(t) /\ req.srtpKey.val[1].size # SrtpMasterLength THEN "TypeError"
    ELSE ""

\* the checks of the member "srtpKey" against HasSrtp(); the thrown error or ""
ValidateSrtpKey(t, req) ==
    IF ~HasSrtp(t) /\ req.srtpKey.kind # "absent" THEN "TypeError"
    ELSE IF HasSrtp(t) /\ req.srtpKey.kind # "string" THEN "TypeError"
    ELSE IF HasSrtp(t) /\ req.srtpKey.val[1].size # SrtpMasterLength THEN "TypeError"
    ELSE ""

\* std::memcpy(dst, key.c_str(), SrtpMasterLength)
CopyKey(key) == [key EXCEPT !.size = SrtpMasterLength]

\* the key each session is created with
SendSessionKey(t, req) == CopyKey(srtpKey[t])
RecvSessionKey(t, req) == CopyKey(req.srtpKey.val[1])

\* variant: the handler does not delete the sending session
ConnectCatchKeepingSend(r) == [r EXCEPT !.recv = <<>>, !.tuple = <<>>]

\* variant: the handler only rethrows
ConnectCatchRethrowOnly(r) == r

\* variant: the handler does not delete the receiving session
ConnectCatchKeepingRecv(r) == [r EXCEPT !.send = <<>>, !.tuple = <<>>]

\* the members as the catch handler leaves them
ConnectCatch(r) == [r EXCEPT !.send = <<>>, !.recv = <<>>, !.tuple = <<>>]

\* the try block: what was thrown or aborted, and the members at that point
ConnectTry(t, req, fault) ==
    LET r0 == [thrown |-> "", stage |-> "", abort |-> FALSE,
               send |-> srtpSendSession[t],
               recv |-> srtpRecvSession[t], tuple |-> tuple[t]]
        ip == NormalizeIp(req.ip.val[1])
        afterSend == [r0 EXCEPT !.send =
                         <<SrtpSession("OUTBOUND", SendSessionKey(t, req))>>]
        afterRecv == [afterSend EXCEPT !.recv =
                         <<SrtpSession("INBOUND", RecvSessionKey(t, req))>>]
        r1 == IF HasSrtp(t) THEN afterRecv ELSE r0
        family == IF fault = "family" THEN "AF_UNSPEC" ELSE GetFamily(ip)
        tp0 == TransportTuple(udpSocket[t], ip, ConnectPort(req))
        tp == IF listenIp[t].announcedIp # ""
              THEN SetLocalAnnouncedIp(tp0, listenIp[t].announcedIp)
              ELSE tp0
    IN IF ValidateIpPort(req) # ""
       THEN [r0 EXCEPT !.thrown = ValidateIpPort(req), !.stage = "ipPort"]
       ELSE IF ValidateSrtpKey(t, req) # ""
            THEN [r0 EXCEPT !.thrown = ValidateSrtpKey(t, req), !.stage = "srtpKey"]
       ELSE IF HasSrtp(t) /\ fault = "sendSession"
            THEN [r0 EXCEPT !.thrown = "Error", !.stage = "sendSession"]
       ELSE IF HasSrtp(t) /\ fault = "recvSession"
            THEN [afterSend EXCEPT !.thrown = "Error", !.stage = "recvSession"]
       ELSE IF family \notin {"AF_INET", "AF_INET6"}
            THEN [r1 EXCEPT !.thrown = "Error", !.stage = "family"]
       ELSE IF fault = "uv" THEN [r1 EXCEPT !.abort = TRUE, !.stage = "uv"]
       ELSE [r1 EXCEPT !.tuple = <<tp>>]

\* the handler up to the response: the guard, the try block and its handler
ConnectResult(t, req, fault) ==
    LET r == ConnectTry(t, req, fault)
    IN IF ConnectAlreadyCalled(t)
       THEN [thrown |-> "Error", stage |-> "called", abort |-> FALSE,
             send |-> srtpSendSession[t], recv |-> srtpRecvSession[t],
             tuple |-> tuple[t]]
       ELSE IF r.thrown # "" THEN ConnectCatch(r)
       ELSE r

\* what the handler does once the tuple is installed, in order
ConnectEvents == <<"tuple", "accept", "connected">>

\* the handler of TRANSPORT_CONNECT
Connect(t, req, fault) ==
    LET r == ConnectResult(t, req, fault)
        ok == r.thrown = "" /\ ~r.abort
        data == IF ok THEN <<TupleFillJson(r.tuple[1])>> ELSE <<>>
    IN /\ t \in transports
       /\ ~aborted
       /\ tuple' = [tuple EXCEPT ![t] = r.tuple]
       /\ srtpSendSession' = [srtpSendSession EXCEPT ![t] = r.send]
       /\ srtpRecvSession' = [srtpRecvSession EXCEPT ![t] = r.recv]
       /\ aborted' = r.abort
       /\ accepted' = [accepted EXCEPT ![t] =
                          IF ok THEN Append(@, [req |-> req, data |-> data[1]])
                          ELSE @]
       /\ connectedCalls' = [connectedCalls EXCEPT ![t] = @ + (IF ok THEN 1 ELSE 0)]
       /\ last' = [NoLast EXCEPT
                     !.op = "connect", !.t = t, !.req = req, !.stage = r.stage,
                     !.err = IF r.abort THEN "abort" ELSE r.thrown,
                     !.response = data,
                     !.events = IF ok THEN ConnectEvents ELSE <<>>]
       /\ UNCHANGED << transports, listenIp, srtpKey, udpSocket, bytesSent,
                       bytesReceived, pendingCb >>

----------------------------------------------------------------------------
(* Buffers and datagrams *)

Payloads == {"P1", "P2"}

\* packet->GetSize() of a packet carrying payload p
SizeOf(p) == IF p = "P1" THEN 1 ELSE 2

\* a buffer: the verdict of each classifier on it, the key it is protected
\* with (NoKey: plain), whether its plain form parses, its payload and length
Buffer(rtcp, rtp, sctp, enc, valid, p) ==
    [rtcp |-> rtcp, rtp |-> rtp, sctp |-> sctp, enc |-> enc, valid |-> valid,
     payload |-> p,
     len |-> SizeOf(p) + (IF enc = NoKey THEN 0 ELSE SrtpTagLength)]

\* packet->GetData() of a well-formed packet of each kind
RtpData(p) == Buffer(FALSE, TRUE, FALSE, NoKey, TRUE, p)
RtcpData(p) == Buffer(TRUE, FALSE, FALSE, NoKey, TRUE, p)
SctpData(p) == Buffer(FALSE, FALSE, TRUE, NoKey, TRUE, p)

SrcIps == {IpB, Ip6}
SrcPorts == {0, LocalPortOf("B")}
SrcKeys == {NoKey, KeyA, KeyB}

\* the contents a datagram may have: a payload in a well-formed packet, or
\* bytes that do not parse
Contents == {[valid |-> TRUE, payload |-> p] : p \in Payloads}
            \cup {[valid |-> FALSE, payload |-> "P1"]}

Datagrams ==
    { [src |-> [ip |-> i, port |-> q],
       data |-> Buffer(c, r, s, k, x.valid, x.payload)] :
        i \in SrcIps, q \in SrcPorts, c \in BOOLEAN, r \in BOOLEAN,
        s \in BOOLEAN, k \in SrcKeys, x \in Contents }

\* SrtpSession::EncryptRtp / EncryptRtcp: false on failure, otherwise the
\* buffer protected with the session's key, longer by the tag
EncryptOk(session, ok) == ok /\ session.type = "OUTBOUND"
Encrypt(session, buf) ==
    [buf EXCEPT !.enc = session.key, !.len = @ + SrtpTagLength]

\* SrtpSession::DecryptSrtp / DecryptSrtcp: false unless the buffer is
\* protected with the session's key, otherwise the plain buffer
DecryptOk(session, buf) == session.type = "INBOUND" /\ buf.enc = session.key
Decrypt(session, buf) == [buf EXCEPT !.enc = NoKey, !.len = @ - SrtpTagLength]

\* RtpPacket::Parse / RTCP::Packet::Parse: nullptr on a malformed buffer,
\* otherwise the packet; its payload is the buffer's, protected or not
ParseOk(buf) == buf.valid
Parse(kind, buf) ==
    [kind |-> kind, payload |-> buf.payload, enc |-> buf.enc, len |-> buf.len]

\* the result of an operation that did nothing
Nothing == [events |-> <<>>, handed |-> <<>>, cb |-> <<>>, fwd |-> <<>>,
            sent |-> 0, keep |-> 0, crash |-> FALSE]

----------------------------------------------------------------------------
(* Outbound pipeline *)

\* tuple->Send(data, len, cb): the buffer and where it goes
TupleSend(t, buf) ==
    [buf |-> buf,
     src |-> [ip |-> tuple[t][1].localIp, port |-> tuple[t][1].localPort],
     dst |-> [ip |-> tuple[t][1].remoteIp, port |-> tuple[t][1].remotePort]]

\* variant: the callback is dropped without being invoked
SendRtpNotConnectedSilent(hasCb) == Nothing

\* SendRtpPacket on a transport that is not connected: (*cb)(false)
SendRtpNotConnected(hasCb) ==
    [Nothing EXCEPT !.cb = IF hasCb THEN <<FALSE>> ELSE <<>>]

\* variant: the callback is invoked and then still given to the socket
SendRtpEncryptFailedKeepingCb(hasCb) ==
    [Nothing EXCEPT !.events = <<"encrypt">>,
                    !.cb = IF hasCb THEN <<FALSE>> ELSE <<>>,
                    !.keep = IF hasCb THEN 1 ELSE 0]

\* variant: the operation ends without invoking the callback
SendRtpEncryptFailedSilent(hasCb) == [Nothing EXCEPT !.events = <<"encrypt">>]

\* SendRtpPacket when EncryptRtp fails: (*cb)(false)
SendRtpEncryptFailed(hasCb) ==
    [Nothing EXCEPT !.events = <<"encrypt">>,
                    !.cb = IF hasCb THEN <<FALSE>> ELSE <<>>]

\* PipeTransport::SendRtpPacket
SendRtpPacketResult(t, p, hasCb, encOk) ==
    LET data == RtpData(p)
    IN IF ~IsConnected(t) THEN SendRtpNotConnected(hasCb)
       ELSE IF HasSrtp(t) /\ srtpSendSession[t] = <<>>
            THEN [Nothing EXCEPT !.crash = TRUE]
       ELSE IF HasSrtp(t) /\ ~EncryptOk(srtpSendSession[t][1], encOk)
            THEN SendRtpEncryptFailed(hasCb)
       ELSE LET out == IF HasSrtp(t) THEN Encrypt(srtpSendSession[t][1], data)
                       ELSE data
            IN [Nothing EXCEPT
                  !.events = (IF HasSrtp(t) THEN <<"encrypt">> ELSE <<>>)
                             \o <<"send", "datasent">>,
                  !.handed = <<TupleSend(t, out)>>,
                  !.keep = IF hasCb THEN 1 ELSE 0,
                  !.sent = out.len]

\* variant: DataSent() is given the length of the packet before encryption
SendRtcpResultCountingPlain(t, p, encOk) ==
    LET data == RtcpData(p)
    IN IF ~IsConnected(t) THEN Nothing
       ELSE IF HasSrtp(t) /\ srtpSendSession[t] = <<>>
            THEN [Nothing EXCEPT !.crash = TRUE]
       ELSE IF HasSrtp(t) /\ ~EncryptOk(srtpSendSession[t][1], encOk)
            THEN [Nothing EXCEPT !.events = <<"encrypt">>]
       ELSE LET out == IF HasSrtp(t) THEN Encrypt(srtpSendSession[t][1], data)
                       ELSE data
            IN [Nothing EXCEPT
                  !.events = (IF HasSrtp(t) THEN <<"encrypt">> ELSE <<>>)
                             \o <<"send", "datasent">>,
                  !.handed = <<TupleSend(t, out)>>,
                  !.sent = data.len]

\* PipeTransport::SendRtcpPacket and PipeTransport::SendRtcpCompoundPacket
SendRtcpResult(t, p, encOk) ==
    LET data == RtcpData(p)
    IN IF ~IsConnected(t) THEN Nothing
       ELSE IF HasSrtp(t) /\ srtpSendSession[t] = <<>>
            THEN [Nothing EXCEPT !.crash = TRUE]
       ELSE IF HasSrtp(t) /\ ~EncryptOk(srtpSendSession[t][1], encOk)
            THEN [Nothing EXCEPT !.events = <<"encrypt">>]
       ELSE LET out == IF HasSrtp(t) THEN Encrypt(srtpSendSession[t][1], data)
                       ELSE data
            IN [Nothing EXCEPT
                  !.events = (IF HasSrtp(t) THEN <<"encrypt">> ELSE <<>>)
                             \o <<"send", "datasent">>,
                  !.handed = <<TupleSend(t, out)>>,
                  !.sent = out.len]

\* variant: SCTP data is encrypted like RTCP when SRTP is enabled
SendSctpDataResultEncrypting(t, p) ==
    LET data == SctpData(p)
        out == IF HasSrtp(t) /\ srtpSendSession[t] # <<>>
               THEN Encrypt(srtpSendSession[t][1], data) ELSE data
    IN IF ~IsConnected(t) THEN Nothing
       ELSE [Nothing EXCEPT !.events = <<"send", "datasent">>,
                            !.handed = <<TupleSend(t, out)>>,
                            !.sent = out.len]

\* PipeTransport::SendSctpData
SendSctpDataResult(t, p) ==
    LET data == SctpData(p)
    IN IF ~IsConnected(t) THEN Nothing
       ELSE [Nothing EXCEPT !.events = <<"send", "datasent">>,
                            !.handed = <<TupleSend(t, data)>>,
                            !.sent = data.len]

\* the members after an outbound operation with result r
Sent(t, op, r) ==
    /\ t \in transports
    /\ ~aborted
    /\ TotalBytes(t) + r.sent <= MaxBytes
    /\ pendingCb[t] + r.keep <= MaxPending
    /\ bytesSent' = [bytesSent EXCEPT ![t] = @ + r.sent]
    /\ pendingCb' = [pendingCb EXCEPT ![t] = @ + r.keep]
    /\ aborted' = r.crash
    /\ last' = [NoLast EXCEPT !.op = op, !.t = t,
                              !.err = IF r.crash THEN "nullptr" ELSE "",
                              !.events = r.events, !.handed = r.handed,
                              !.cb = r.cb]
    /\ UNCHANGED << transports, listenIp, srtpKey, udpSocket, tuple,
                    srtpSendSession, srtpRecvSession, bytesReceived,
                    connectedCalls, accepted >>

SendRtpPacket(t, p, hasCb, encOk) ==
    Sent(t, IF hasCb THEN "sendRtpCb" ELSE "sendRtp",
         SendRtpPacketResult(t, p, hasCb, encOk))

SendRtcpPacket(t, p, encOk) == Sent(t, "sendRtcp", SendRtcpResult(t, p, encOk))

SendRtcpCompoundPacket(t, p, encOk) ==
    Sent(t, "sendRtcpCompound", SendRtcpResult(t, p, encOk))

SendSctpData(t, p) == Sent(t, "sendSctp", SendSctpDataResult(t, p))

\* the socket layer reports the outcome of a transmission: the callback it
\* was given is invoked and deleted
OnSendCompleted(t, ok) ==
    /\ t \in transports
    /\ ~aborted
    /\ pendingCb[t] > 0
    /\ pendingCb' = [pendingCb EXCEPT ![t] = @ - 1]
    /\ last' = [NoLast EXCEPT !.op = "sendCompleted", !.t = t, !.cb = <<ok>>]
    /\ UNCHANGED << transports, listenIp, srtpKey, udpSocket, tuple,
                    srtpSendSession, srtpRecvSession, bytesSent, bytesReceived,
                    connectedCalls, accepted, aborted >>

----------------------------------------------------------------------------
(* Inbound pipeline *)

\* the tuple OnUdpSocketPacketReceived builds for the datagram's source
SourceTuple(t, d) == TransportTuple(udpSocket[t], d.src.ip, d.src.port)

\* variant: only the IP of the source is compared
OriginMatchesIpOnly(t, d) == tuple[t][1].remoteIp = d.src.ip

\* this->tuple->Compare(tuple)
OriginMatches(t, d) == TupleCompare(tuple[t][1], SourceTuple(t, d))

\* PipeTransport::OnRtpDataReceived
OnRtpDataReceived(t, d) ==
    IF ~IsConnected(t) THEN Nothing
    ELSE IF ~OriginMatches(t, d) THEN [Nothing EXCEPT !.events = <<"compare">>]
    ELSE IF HasSrtp(t) /\ srtpRecvSession[t] = <<>>
         THEN [Nothing EXCEPT !.events = <<"compare">>, !.crash = TRUE]
    ELSE IF HasSrtp(t) /\ ~DecryptOk(srtpRecvSession[t][1], d.data)
         THEN [Nothing EXCEPT !.events = <<"compare", "decryptFailed", "parseForLog">>]
    ELSE LET plain == IF HasSrtp(t) THEN Decrypt(srtpRecvSession[t][1], d.data)
                      ELSE d.data
             ev == <<"compare">> \o (IF HasSrtp(t) THEN <<"decrypt">> ELSE <<>>)
         IN IF ~ParseOk(plain) THEN [Nothing EXCEPT !.events = ev \o <<"parseFailed">>]
            ELSE [Nothing EXCEPT !.events = ev \o <<"parse", "forward">>,
                                 !.fwd = <<Parse("rtp", plain)>>]

\* variant: a buffer whose decryption failed is parsed and forwarded
OnRtcpDataReceivedIgnoringDecrypt(t, d) ==
    IF ~IsConnected(t) THEN Nothing
    ELSE IF ~OriginMatches(t, d) THEN [Nothing EXCEPT !.events = <<"compare">>]
    ELSE IF HasSrtp(t) /\ srtpRecvSession[t] = <<>>
         THEN [Nothing EXCEPT !.events = <<"compare">>, !.crash = TRUE]
    ELSE LET ok == HasSrtp(t) /\ DecryptOk(srtpRecvSession[t][1], d.data)
             plain == IF ok THEN Decrypt(srtpRecvSession[t][1], d.data)
                      ELSE d.data
             ev == <<"compare">> \o (IF ok THEN <<"decrypt">>
                                     ELSE IF HasSrtp(t) THEN <<"decryptFailed">>
                                     ELSE <<>>)
         IN IF ~ParseOk(plain) THEN [Nothing EXCEPT !.events = ev \o <<"parseFailed">>]
            ELSE [Nothing EXCEPT !.events = ev \o <<"parse", "forward">>,
                                 !.fwd = <<Parse("rtcp", plain)>>]

\* PipeTransport::OnRtcpDataReceived
OnRtcpDataReceived(t, d) ==
    IF ~IsConnected(t) THEN Nothing
    ELSE IF ~OriginMatches(t, d) THEN [Nothing EXCEPT !.events = <<"compare">>]
    ELSE IF HasSrtp(t) /\ srtpRecvSession[t] = <<>>
         THEN [Nothing EXCEPT !.events = <<"compare">>, !.crash = TRUE]
    ELSE IF HasSrtp(t) /\ ~DecryptOk(srtpRecvSession[t][1], d.data)
         THEN [Nothing EXCEPT !.events = <<"compare", "decryptFailed">>]
    ELSE LET plain == IF HasSrtp(t) THEN Decrypt(srtpRecvSession[t][1], d.data)
                      ELSE d.data
             ev == <<"compare">> \o (IF HasSrtp(t) THEN <<"decrypt">> ELSE <<>>)
         IN IF ~ParseOk(plain) THEN [Nothing EXCEPT !.events = ev \o <<"parseFailed">>]
            ELSE [Nothing EXCEPT !.events = ev \o <<"parse", "forward">>,
                                 !.fwd = <<Parse("rtcp", plain)>>]

\* variant: no IsConnected() check; without a tuple nothing is compared
OnSctpDataReceivedUnconnected(t, d) ==
    IF IsConnected(t) /\ ~OriginMatches(t, d)
    THEN [Nothing EXCEPT !.events = <<"compare">>]
    ELSE [Nothing EXCEPT !.events = <<"compare", "forward">>,
                         !.fwd = <<[kind |-> "sctp", payload |-> d.data.payload,
                                    enc |-> d.data.enc, len |-> d.data.len]>>]

\* PipeTransport::OnSctpDataReceived
OnSctpDataReceived(t, d) ==
    IF ~IsConnected(t) THEN Nothing
    ELSE IF ~OriginMatches(t, d) THEN [Nothing EXCEPT !.events = <<"compare">>]
    ELSE [Nothing EXCEPT !.events = <<"compare", "forward">>,
                         !.fwd = <<[kind |-> "sctp", payload |-> d.data.payload,
                                    enc |-> d.data.enc, len |-> d.data.len]>>]

\* variant: the RTP classifier is tried before the RTCP classifier
OnPacketReceivedRtpFirst(t, d) ==
    IF d.data.rtp THEN OnRtpDataReceived(t, d)
    ELSE IF d.data.rtcp THEN OnRtcpDataReceived(t, d)
    ELSE IF d.data.sctp THEN OnSctpDataReceived(t, d)
    ELSE Nothing

\* variant: a buffer no classifier matches is taken for SCTP data
OnPacketReceivedUnknownAsSctp(t, d) ==
    IF d.data.rtcp THEN OnRtcpDataReceived(t, d)
    ELSE IF d.data.rtp THEN OnRtpDataReceived(t, d)
    ELSE OnSctpDataReceived(t, d)

\* PipeTransport::OnPacketReceived: the path the datagram is given to
OnPacketReceived(t, d) ==
    IF d.data.rtcp THEN OnRtcpDataReceived(t, d)
    ELSE IF d.data.rtp THEN OnRtpDataReceived(t, d)
    ELSE IF d.data.sctp THEN OnSctpDataReceived(t, d)
    ELSE Nothing

\* the path's name, for the record of the operation
PathOf(d) ==
    IF d.data.rtcp THEN "rtcp"
    ELSE IF d.data.rtp THEN "rtp"
    ELSE IF d.data.sctp THEN "sctp"
    ELSE "unknown"

\* variant: DataReceived() is called for the datagrams that are forwarded
OnUdpSocketPacketReceivedCountingForwarded(t, d) ==
    LET r == OnPacketReceived(t, d)
        n == IF r.fwd # <<>> THEN d.data.len ELSE 0
    IN /\ t \in transports
       /\ ~aborted
       /\ TotalBytes(t) + d.data.len <= MaxBytes
       /\ bytesReceived' = [bytesReceived EXCEPT ![t] = @ + n]
       /\ aborted' = r.crash
       /\ last' = [NoLast EXCEPT !.op = "receive", !.t = t, !.dgram = <<d>>,
                                 !.err = IF r.crash THEN "nullptr" ELSE "",
                                 !.events = <<"datareceived", PathOf(d)>> \o r.events,
                                 !.fwd = r.fwd]
       /\ UNCHANGED << transports, listenIp, srtpKey, udpSocket, tuple,
                       srtpSendSession, srtpRecvSession, bytesSent, pendingCb,
                       connectedCalls, accepted >>

\* PipeTransport::OnUdpSocketPacketReceived
OnUdpSocketPacketReceived(t, d) ==
    LET r == OnPacketReceived(t, d)
    IN /\ t \in transports
       /\ ~aborted
       /\ TotalBytes(t) + d.data.len <= MaxBytes
       /\ bytesReceived' = [bytesReceived EXCEPT ![t] = @ + d.data.len]
       /\ aborted' = r.crash
       /\ last' = [NoLast EXCEPT !.op = "receive", !.t = t, !.dgram = <<d>>,
                                 !.err = IF r.crash THEN "nullptr" ELSE "",
                                 !.events = <<"datareceived", PathOf(d)>> \o r.events,
                                 !.fwd = r.fwd]
       /\ UNCHANGED << transports, listenIp, srtpKey, udpSocket, tuple,
                       srtpSendSession, srtpRecvSession, bytesSent, pendingCb,
                       connectedCalls, accepted >>

----------------------------------------------------------------------------
(* Specifications *)

\* a connect request and what goes wrong in the calls it makes; nothing can
\* go wrong in a call that is not reached
ConnectInputs ==
    { in \in Requests \X Faults : in[2] = "none" \/ ValidateIpPort(in[1]) = "" }

Next ==
    \/ \E t \in transports, in \in ConnectInputs : Connect(t, in[1], in[2])
    \/ \E t \in transports, p \in Payloads, hasCb \in BOOLEAN, encOk \in BOOLEAN :
          SendRtpPacket(t, p, hasCb, encOk)
    \/ \E t \in transports, p \in Payloads, encOk \in BOOLEAN :
          SendRtcpPacket(t, p, encOk)
    \/ \E t \in transports, p \in Payloads, encOk \in BOOLEAN :
          SendRtcpCompoundPacket(t, p, encOk)
    \/ \E t \in transports, p \in Payloads : SendSctpData(t, p)
    \/ \E t \in transports, ok \in BOOLEAN : OnSendCompleted(t, ok)
    \/ \E t \in transports, d \in Datagrams : OnUdpSocketPacketReceived(t, d)

\* one transport and its environment
Spec == Init /\ [][Next]_vars

\* the connect requests that name one of the two transports as the remote
PairRequests ==
    { [ip |-> Str(LocalIpOf(u)), port |-> Num(LocalPortOf(u)), srtpKey |-> Str(k)] :
        u \in TransportIds, k \in {KeyA, KeyB} }

\* the datagram that transport s handed to its tuple in the last operation
\* arrives at the socket of transport t, with the address of s's socket as
\* its source
Deliver(s, t) ==
    /\ s # t
    /\ last.t = s
    /\ last.handed # <<>>
    /\ OnUdpSocketPacketReceived(t, [src |-> last.handed[1].src,
                                     data |-> last.handed[1].buf])

NextPair ==
    \/ \E t \in transports, req \in PairRequests : Connect(t, req, "none")
    \/ \E t \in transports, p \in Payloads, encOk \in BOOLEAN :
          SendRtpPacket(t, p, FALSE, encOk)
    \/ \E s \in transports, t \in transports : Deliver(s, t)

\* two transports with SRTP enabled, each receiving what the other sends
SpecPair == InitPair /\ [][NextPair]_vars

----------------------------------------------------------------------------
(* Properties *)

\* the request is one the handler has no reason to reject on a transport
\* that is not connected
ValidRequest(t, req) ==
    /\ req.ip.kind = "string"
    /\ req.ip.val[1] \in {IpA, IpB, Ip6, Ip6Long}
    /\ req.port.kind = "number"
    /\ req.port.val[1] > 0
    /\ IF srtpKey[t] = NoKey THEN req.srtpKey.kind = "absent"
       ELSE req.srtpKey.kind = "string" /\ req.srtpKey.val[1].size = 30

\* the srtpKey member does not fit the transport's own protection state
KeyMismatch(t, req) ==
    IF srtpKey[t] = NoKey THEN req.srtpKey.kind # "absent"
    ELSE req.srtpKey.kind # "string" \/ req.srtpKey.val[1].size # 30

\* the stages at which a connect on an unconnected transport throws
RecoverableStages == {"ipPort", "srtpKey", "sendSession", "recvSession", "family"}

\* the steps of the inbound pipeline that come after the origin check
AfterOriginCheck ==
    {"decrypt", "decryptFailed", "parse", "parseFailed", "parseForLog", "forward"}

SendOps == {"sendRtp", "sendRtpCb", "sendRtcp", "sendRtcpCompound", "sendSctp"}

\* C1: after a successful connect(ip, port, ...) the installed tuple and the
\* tuple in the response carry the request's address: remoteIp is the
\* request's ip, remotePort the request's port, protocol "udp", and the
\* local side is the socket's port and its (announced) address.
C1_ConnectInstallsRequestAddress ==
    \A t \in transports :
        (last.op = "connect" /\ last.t = t /\ last.response # <<>>) =>
            /\ last.response[1].remoteIp = NormalizeIp(last.req.ip.val[1])
            /\ last.response[1].remotePort = last.req.port.val[1]
            /\ last.response[1].protocol = "udp"
            /\ last.response[1].localPort = udpSocket[t].localPort
            /\ last.response[1].localIp =
                   (IF listenIp[t].announcedIp = "" THEN udpSocket[t].localIp
                    ELSE listenIp[t].announcedIp)
            /\ tuple[t] # <<>>
            /\ tuple[t][1].remoteIp = NormalizeIp(last.req.ip.val[1])
            /\ tuple[t][1].remotePort = last.req.port.val[1]

\* C2: a connect request made after one connect has succeeded fails with an
\* Error whatever its arguments, is not accepted, notifies nobody, and leaves
\* the tuple, both sessions and every counter as they were.
C2_SecondConnectRejected ==
    [][\A t \in transports :
          (tuple[t] # <<>> /\ last'.op = "connect" /\ last'.t = t) =>
              /\ last'.err = "Error"
              /\ last'.response = <<>>
              /\ last'.events = <<>>
              /\ tuple'[t] = tuple[t]
              /\ srtpSendSession'[t] = srtpSendSession[t]
              /\ srtpRecvSession'[t] = srtpRecvSession[t]
              /\ accepted'[t] = accepted[t]
              /\ connectedCalls'[t] = connectedCalls[t]
              /\ bytesSent'[t] = bytesSent[t]
              /\ bytesReceived'[t] = bytesReceived[t]
              /\ pendingCb'[t] = pendingCb[t]
              /\ ~aborted']_vars

\* a connected transport has just rejected a request that names another
\* remote address and is otherwise valid
C2_Witness ==
    \E t \in transports :
        /\ last.op = "connect" /\ last.t = t /\ last.err = "Error"
        /\ tuple[t] # <<>>
        /\ Len(accepted[t]) = 1
        /\ ValidRequest(t, last.req)
        /\ NormalizeIp(last.req.ip.val[1]) # tuple[t][1].remoteIp

\* C3: a connect that throws while validating ip, port or srtpKey, while
\* creating either session, or after both sessions were created, leaves the
\* transport with no tuple and no session, accepts no response and notifies
\* nobody; and every valid request made next succeeds.
C3_FailedConnectLeavesNoResidue ==
    \A t \in transports :
        (last.op = "connect" /\ last.t = t /\ last.stage \in RecoverableStages) =>
            /\ last.err \in {"Error", "TypeError"}
            /\ last.response = <<>>
            /\ last.events = <<>>
            /\ tuple[t] = <<>>
            /\ srtpSendSession[t] = <<>>
            /\ srtpRecvSession[t] = <<>>
            /\ accepted[t] = <<>>
            /\ connectedCalls[t] = 0
            /\ ~aborted
            /\ \A req \in Requests :
                   ValidRequest(t, req) =>
                       LET r == ConnectResult(t, req, "none")
                       IN /\ r.thrown = ""
                          /\ ~r.abort
                          /\ r.tuple # <<>>
                          /\ (srtpKey[t] # NoKey) = (r.send # <<>>)
                          /\ (srtpKey[t] # NoKey) = (r.recv # <<>>)

\* the receiving session could not be created, after the sending session was
C3_Witness ==
    \E t \in transports :
        /\ last.op = "connect" /\ last.t = t /\ last.stage = "recvSession"
        /\ last.err = "Error"
        /\ srtpKey[t] # NoKey
        /\ \E req \in Requests : ValidRequest(t, req)

\* C4: on a transport that is not connected, a connect whose srtpKey does not
\* fit the local protection state (enabled: absent, not a string, or not 30
\* bytes long; disabled: present) fails with a TypeError and the transport
\* stays without a tuple.
C4_SrtpKeyValidated ==
    \A t \in transports :
        (last.op = "connect" /\ last.t = t /\ last.stage # "called"
           /\ KeyMismatch(t, last.req)) =>
            /\ last.err = "TypeError"
            /\ last.response = <<>>
            /\ tuple[t] = <<>>

\* a 16-byte key was given, with a valid ip and port, to a transport with SRTP
C4_Witness ==
    \E t \in transports :
        /\ last.op = "connect" /\ last.t = t /\ last.err = "TypeError"
        /\ srtpKey[t] # NoKey
        /\ last.req.ip = Str(IpB)
        /\ last.req.port.kind = "number" /\ last.req.port.val[1] > 0
        /\ last.req.srtpKey = Str(Key16)
        /\ tuple[t] = <<>>

\* C5: between operations the two sessions are both present or both absent,
\* and present exactly when SRTP is enabled and the transport is connected;
\* so no send or receive dereferences a session that is nullptr.
C5_SessionsPaired ==
    /\ last.err # "nullptr"
    /\ ~aborted =>
          \A t \in transports :
              /\ (srtpSendSession[t] # <<>>) = (srtpRecvSession[t] # <<>>)
              /\ (srtpSendSession[t] # <<>>) = (srtpKey[t] # NoKey /\ tuple[t] # <<>>)

\* a connected transport with SRTP has encrypted and sent a packet
C5_Witness ==
    \E t \in transports :
        /\ last.op \in SendOps /\ last.t = t
        /\ last.events = <<"encrypt", "send", "datasent">>
        /\ srtpKey[t] # NoKey
        /\ srtpSendSession[t] # <<>> /\ srtpRecvSession[t] # <<>>

C7_PeerRtpForwarded ==
    \A t \in transports :
        (/\ last.op = "receive" /\ last.t = t
         /\ accepted[t] # <<>>
         /\ srtpKey[t] # NoKey
         /\ last.dgram[1].src.ip = NormalizeIp(accepted[t][1].req.ip.val[1])
         /\ last.dgram[1].src.port = accepted[t][1].req.port.val[1]
         /\ last.dgram[1].data.rtp /\ ~last.dgram[1].data.rtcp
         /\ last.dgram[1].data.valid
         /\ last.dgram[1].data.enc = accepted[t][1].req.srtpKey.val[1]) =>
            last.fwd = << [kind |-> "rtp",
                           payload |-> last.dgram[1].data.payload,
                           enc |-> NoKey,
                           len |-> SizeOf(last.dgram[1].data.payload)] >>

C9_RoundTrip ==
    /\ \A t \in transports :
           /\ srtpSendSession[t] # <<>> => srtpSendSession[t][1].key = srtpKey[t]
           /\ (srtpRecvSession[t] # <<>> /\ accepted[t] # <<>>) =>
                  srtpRecvSession[t][1].key = accepted[t][1].req.srtpKey.val[1]
    /\ \A a \in transports, b \in transports :
           (/\ a # b
            /\ last.op = "receive" /\ last.t = b
            /\ accepted[b] # <<>>
            /\ accepted[b][1].req.ip = Str(udpSocket[a].localIp)
            /\ accepted[b][1].req.port = Num(udpSocket[a].localPort)
            /\ accepted[b][1].req.srtpKey = Str(srtpKey[a])
            /\ last.dgram[1].src = [ip |-> udpSocket[a].localIp,
                                    port |-> udpSocket[a].localPort]
            /\ last.dgram[1].data.enc = srtpKey[a]) =>
               last.fwd = << [kind |-> "rtp",
                              payload |-> last.dgram[1].data.payload,
                              enc |-> NoKey,
                              len |-> SizeOf(last.dgram[1].data.payload)] >>

\* C10: a tuple, once installed, is never removed or replaced; the response
\* is accepted and Connected() is called exactly once, by the connect that
\* installs the tuple, and after it is installed.
C10_ConnectedIsTerminal ==
    [][\A t \in transports :
          /\ tuple[t] # <<>> => tuple'[t] = tuple[t]
          /\ Len(accepted'[t]) = (IF tuple'[t] # <<>> THEN 1 ELSE 0)
          /\ connectedCalls'[t] = (IF tuple'[t] # <<>> THEN 1 ELSE 0)
          /\ (tuple[t] = <<>> /\ tuple'[t] # <<>>) =>
                 /\ last'.op = "connect" /\ last'.t = t /\ last'.err = ""
                 /\ last'.events = <<"tuple", "accept", "connected">>
                 /\ last'.response = <<accepted'[t][1].data>>
          /\ (last'.op = "connect" /\ last'.t = t /\ last'.response # <<>>) =>
                 (tuple[t] = <<>> /\ tuple'[t] # <<>>)]_vars

\* a connected transport has gone on to receive and forward a datagram
C10_Witness ==
    \E t \in transports :
        /\ tuple[t] # <<>>
        /\ Len(accepted[t]) = 1 /\ connectedCalls[t] = 1
        /\ last.op = "receive" /\ last.t = t /\ last.fwd # <<>>

\* no classifier matches the buffer
UnknownFraming(buf) == ~buf.rtcp /\ ~buf.rtp /\ ~buf.sctp

\* C11: a received buffer that none of the RTCP, RTP and SCTP classifiers
\* matches is dropped whether or not the transport is connected: nothing is
\* forwarded, nothing is raised, no step of a path runs, and only the
\* bytes-received counter changes.
C11_UnknownFramingDropped ==
    [][\A t \in transports :
          (/\ last'.op = "receive" /\ last'.t = t
           /\ UnknownFraming(last'.dgram[1].data)) =>
              /\ last'.fwd = <<>>
              /\ last'.err = ""
              /\ last'.events = <<"datareceived", "unknown">>
              /\ bytesReceived'[t] = bytesReceived[t] + last'.dgram[1].data.len
              /\ UNCHANGED << transports, listenIp, srtpKey, udpSocket, tuple,
                              srtpSendSession, srtpRecvSession, bytesSent,
                              connectedCalls, accepted, pendingCb, aborted >>]_vars

\* a connected transport with SRTP received, from the tuple's remote address,
\* a buffer of unknown framing that is well formed and protected with the
\* receiving session's key
C11_Witness ==
    \E t \in transports :
        /\ last.op = "receive" /\ last.t = t
        /\ tuple[t] # <<>> /\ srtpRecvSession[t] # <<>>
        /\ UnknownFraming(last.dgram[1].data)
        /\ last.dgram[1].src.ip = tuple[t][1].remoteIp
        /\ last.dgram[1].src.port = tuple[t][1].remotePort
        /\ last.dgram[1].data.valid
        /\ last.dgram[1].data.enc = srtpRecvSession[t][1].key
        /\ bytesReceived[t] = last.dgram[1].data.len

\* C12: every received datagram adds its length to the bytes-received
\* counter, whatever becomes of it, and nothing else changes the counter; so
\* the counter is the sum of the lengths of the datagrams received.
C12_BytesReceivedCountsEveryDatagram ==
    [][\A t \in transports :
          bytesReceived'[t] =
              bytesReceived[t] + (IF last'.op = "receive" /\ last'.t = t
                                  THEN last'.dgram[1].data.len ELSE 0)]_vars

\* a second datagram was received and dropped because its decryption failed,
\* after a first one was received
C12_Witness ==
    \E t \in transports :
        /\ last.op = "receive" /\ last.t = t
        /\ tuple[t] # <<>>
        /\ last.events = <<"datareceived", "rtp", "compare", "decryptFailed",
                           "parseForLog">>
        /\ last.fwd = <<>>
        /\ bytesReceived[t] > last.dgram[1].data.len

\* the send operations that encrypt when SRTP is enabled
ProtectedSendOps == {"sendRtp", "sendRtpCb", "sendRtcp", "sendRtcpCompound"}

\* C13: a callback given to SendRtpPacket is either invoked at once with
\* false (the transport is not connected, or encryption failed) and not given
\* to the socket, or given to the socket once together with the buffer and
\* not invoked by the call; the socket invokes one callback it holds per
\* completed transmission, and no other operation invokes or keeps one.
C13_CallbackConsumedOnce ==
    [][\A t \in transports :
          /\ (last'.op = "sendRtpCb" /\ last'.t = t) =>
                 \/ /\ last'.cb = <<FALSE>>
                    /\ last'.handed = <<>>
                    /\ pendingCb'[t] = pendingCb[t]
                    /\ tuple[t] = <<>> \/ last'.events = <<"encrypt">>
                 \/ /\ last'.cb = <<>>
                    /\ Len(last'.handed) = 1
                    /\ pendingCb'[t] = pendingCb[t] + 1
                    /\ tuple[t] # <<>>
          /\ (last'.op = "sendCompleted" /\ last'.t = t) =>
                 /\ pendingCb[t] > 0
                 /\ pendingCb'[t] = pendingCb[t] - 1
                 /\ Len(last'.cb) = 1
          /\ ~(last'.op \in {"sendRtpCb", "sendCompleted"} /\ last'.t = t) =>
                 /\ pendingCb'[t] = pendingCb[t]
                 /\ last'.t = t => last'.cb = <<>>]_vars

\* a connected transport with SRTP encrypted a packet and gave it to the
\* socket with the callback
C13_Witness ==
    \E t \in transports :
        /\ last.op = "sendRtpCb" /\ last.t = t
        /\ srtpKey[t] # NoKey
        /\ last.events = <<"encrypt", "send", "datasent">>
        /\ last.handed # <<>>
        /\ last.cb = <<>>
        /\ pendingCb[t] = 1

\* C14: on a connected transport with SRTP every RTP or RTCP send encrypts
\* first; when the encryption fails nothing is handed to the tuple, the
\* bytes-sent counter and the callbacks the socket holds are unchanged, and
\* the callback of SendRtpPacket, if any, is invoked at once with false while
\* the RTCP operations end silently.
C14_EncryptFailureSendsNothing ==
    [][\A t \in transports :
          (tuple[t] # <<>> /\ srtpKey[t] # NoKey) =>
              /\ \A p \in Payloads :
                     /\ SendRtcpResult(t, p, FALSE) =
                            [Nothing EXCEPT !.events = <<"encrypt">>]
                     /\ SendRtpPacketResult(t, p, FALSE, FALSE) =
                            [Nothing EXCEPT !.events = <<"encrypt">>]
                     /\ SendRtpPacketResult(t, p, TRUE, FALSE) =
                            [Nothing EXCEPT !.events = <<"encrypt">>,
                                            !.cb = <<FALSE>>]
              /\ (last'.op \in ProtectedSendOps /\ last'.t = t) =>
                     \/ /\ last'.events = <<"encrypt", "send", "datasent">>
                        /\ Len(last'.handed) = 1
                        /\ last'.handed[1].buf.enc = srtpKey[t]
                     \/ /\ last'.events = <<"encrypt">>
                        /\ last'.handed = <<>>
                        /\ last'.cb = (IF last'.op = "sendRtpCb" THEN <<FALSE>>
                                       ELSE <<>>)
                        /\ last'.err = ""
                        /\ UNCHANGED << transports, listenIp, srtpKey,
                                        udpSocket, tuple, srtpSendSession,
                                        srtpRecvSession, bytesSent,
                                        bytesReceived, connectedCalls,
                                        accepted, pendingCb, aborted >>]_vars

\* after a packet was sent, the encryption of the next RTP packet failed and
\* its callback was invoked with false
C14_Witness ==
    \E t \in transports :
        /\ last.op = "sendRtpCb" /\ last.t = t
        /\ tuple[t] # <<>> /\ srtpKey[t] # NoKey
        /\ last.events = <<"encrypt">>
        /\ last.cb = <<FALSE>>
        /\ last.handed = <<>>
        /\ bytesSent[t] > 0

\* C15: the bytes-sent counter grows, in the send operation itself, by the
\* length of the buffer handed to the tuple and by nothing else; a send on a
\* connected transport whose encryption did not fail hands exactly one
\* buffer, addressed to the tuple's remote side, whose length is the
\* packet's plus the SRTP tag when the operation encrypts; the outcome the
\* socket reports later does not change the counter.
C15_BytesSentCountsHandedLength ==
    [][\A t \in transports :
          /\ bytesSent'[t] =
                 bytesSent[t] + (IF last'.op \in SendOps /\ last'.t = t
                                    /\ last'.handed # <<>>
                                 THEN last'.handed[1].buf.len ELSE 0)
          /\ (/\ last'.op \in SendOps /\ last'.t = t
              /\ tuple[t] # <<>>
              /\ last'.events # <<"encrypt">>) =>
                 /\ Len(last'.handed) = 1
                 /\ last'.handed[1].dst = [ip |-> tuple[t][1].remoteIp,
                                           port |-> tuple[t][1].remotePort]
                 /\ last'.handed[1].buf.len =
                        SizeOf(last'.handed[1].buf.payload)
                        + (IF srtpKey[t] # NoKey /\ last'.op \in ProtectedSendOps
                           THEN SrtpTagLength ELSE 0)]_vars

\* the socket reported that the transmission of an encrypted packet failed,
\* with the packet's encrypted length in the counter
C15_Witness ==
    \E t \in transports :
        /\ last.op = "sendCompleted" /\ last.t = t
        /\ last.cb = <<FALSE>>
        /\ srtpKey[t] # NoKey
        /\ bytesSent[t] = SizeOf("P1") + SrtpTagLength

\* the names the record gives to the classification of a datagram
Classes == {"rtcp", "rtp", "sctp", "unknown"}

\* the first of the classifiers RTCP, RTP, SCTP that matches the buffer
FirstMatch(buf) ==
    IF buf.rtcp THEN "rtcp"
    ELSE IF buf.rtp THEN "rtp"
    ELSE IF buf.sctp THEN "sctp"
    ELSE "unknown"

\* the datagram comes from the remote address of the transport's tuple
FromRemote(t, d) ==
    /\ d.src.ip = tuple[t][1].remoteIp
    /\ d.src.port = tuple[t][1].remotePort

\* the number of times step e occurs in the sequence of steps ev
Occurrences(ev, e) == Cardinality({i \in 1..Len(ev) : ev[i] = e})

\* C16: a datagram received by a transport that has no tuple is only
\* counted and classified: it is not compared, decrypted, parsed or
\* forwarded and nothing is raised, whatever its class; a packet is only
\* ever forwarded by the receive operation that was given it, on a transport
\* whose connect was accepted.
C16_UnconnectedReceiveDropped ==
    /\ \A t \in transports :
           (last.op = "receive" /\ last.t = t /\ tuple[t] = <<>>) =>
               /\ Len(last.events) = 2
               /\ last.events[1] = "datareceived"
               /\ last.events[2] \in Classes
               /\ last.fwd = <<>>
               /\ last.err = ""
               /\ ~aborted
    /\ last.fwd # <<>> =>
           /\ last.op = "receive"
           /\ tuple[last.t] # <<>>
           /\ Len(accepted[last.t]) = 1
           /\ Len(last.fwd) = 1
           /\ last.fwd[1].payload = last.dgram[1].data.payload

\* a transport with SRTP and no tuple received a well-formed datagram that
\* only the SCTP classifier matches
C16_Witness ==
    \E t \in transports :
        /\ last.op = "receive" /\ last.t = t
        /\ tuple[t] = <<>> /\ srtpKey[t] # NoKey
        /\ last.dgram[1].data.sctp
        /\ ~last.dgram[1].data.rtcp /\ ~last.dgram[1].data.rtp
        /\ last.dgram[1].data.valid
        /\ last.events = <<"datareceived", "sctp">>
        /\ bytesReceived[t] = last.dgram[1].data.len

\* C17: on a connected transport a datagram classified as RTP or RTCP goes
\* through the origin check, then the decryption when SRTP is enabled, then
\* the parse, then the forward, and stops at the first step that fails; what
\* is forwarded is one packet of the datagram's class, and with SRTP it is the
\* decrypted form of a buffer protected with the receiving session's key.
C17_InboundStepOrder ==
    \A t \in transports :
        (/\ last.op = "receive" /\ last.t = t
         /\ tuple[t] # <<>>
         /\ FirstMatch(last.dgram[1].data) \in {"rtcp", "rtp"}
         /\ srtpKey[t] # NoKey => srtpRecvSession[t] # <<>>) =>
            LET d == last.dgram[1]
                kind == FirstMatch(d.data)
                srtp == srtpKey[t] # NoKey
                head == <<"datareceived", kind, "compare">>
                decryptable == d.data.enc = srtpRecvSession[t][1].key
            IN IF ~FromRemote(t, d)
               THEN last.events = head /\ last.fwd = <<>>
               ELSE IF srtp /\ ~decryptable
               THEN /\ last.events =
                          head \o <<"decryptFailed">>
                          \o (IF kind = "rtp" THEN <<"parseForLog">> ELSE <<>>)
                    /\ last.fwd = <<>>
               ELSE IF ~d.data.valid
               THEN /\ last.events =
                          head \o (IF srtp THEN <<"decrypt">> ELSE <<>>)
                          \o <<"parseFailed">>
                    /\ last.fwd = <<>>
               ELSE /\ last.events =
                          head \o (IF srtp THEN <<"decrypt">> ELSE <<>>)
                          \o <<"parse", "forward">>
                    /\ last.fwd =
                          << [kind |-> kind, payload |-> d.data.payload,
                              enc |-> IF srtp THEN NoKey ELSE d.data.enc,
                              len |-> IF srtp THEN d.data.len - SrtpTagLength
                                      ELSE d.data.len] >>

\* an RTCP datagram protected with the receiving session's key was
\* decrypted, parsed and forwarded
C17_Witness ==
    \E t \in transports :
        /\ last.op = "receive" /\ last.t = t
        /\ tuple[t] # <<>> /\ srtpRecvSession[t] # <<>>
        /\ last.dgram[1].data.rtcp
        /\ last.dgram[1].data.enc = srtpRecvSession[t][1].key
        /\ last.events = <<"datareceived", "rtcp", "compare", "decrypt",
                           "parse", "forward">>
        /\ last.fwd # <<>> /\ last.fwd[1].kind = "rtcp"
        /\ last.fwd[1].enc = NoKey

\* C18: SendSctpData on a connected transport hands the caller's buffer to
\* the tuple as it is, not encrypted and with its own length, with or
\* without SRTP; a datagram classified as SCTP that comes from the tuple's
\* remote address is forwarded as the received buffer, with no decryption
\* and no parse.
C18_SctpNeverProtected ==
    \A t \in transports :
        /\ (last.op = "sendSctp" /\ last.t = t /\ tuple[t] # <<>>) =>
               /\ last.events = <<"send", "datasent">>
               /\ Len(last.handed) = 1
               /\ last.handed[1].buf.enc = NoKey
               /\ last.handed[1].buf.len = SizeOf(last.handed[1].buf.payload)
               /\ last.handed[1].buf.sctp
        /\ (/\ last.op = "receive" /\ last.t = t
            /\ tuple[t] # <<>>
            /\ FirstMatch(last.dgram[1].data) = "sctp"
            /\ FromRemote(t, last.dgram[1])) =>
               /\ last.events = <<"datareceived", "sctp", "compare", "forward">>
               /\ last.fwd = << [kind |-> "sctp",
                                 payload |-> last.dgram[1].data.payload,
                                 enc |-> last.dgram[1].data.enc,
                                 len |-> last.dgram[1].data.len] >>

\* a connected transport with SRTP forwarded an SCTP datagram that was
\* protected with the receiving session's key, still protected
C18_Witness ==
    \E t \in transports :
        /\ last.op = "receive" /\ last.t = t
        /\ tuple[t] # <<>> /\ srtpRecvSession[t] # <<>>
        /\ FirstMatch(last.dgram[1].data) = "sctp"
        /\ last.dgram[1].data.enc = srtpRecvSession[t][1].key
        /\ last.fwd # <<>>
        /\ last.fwd[1].enc = srtpRecvSession[t][1].key
        /\ last.fwd[1].len = last.dgram[1].data.len

\* C19: a datagram is given to the path of the first of the classifiers
\* RTCP, RTP, SCTP that matches it and to no other: the steps that run are
\* those of that path, at most one packet is forwarded, and it is of that
\* class.
C19_FirstClassifierWins ==
    last.op = "receive" =>
        LET first == FirstMatch(last.dgram[1].data)
        IN /\ last.events[1] = "datareceived"
           /\ last.events[2] = first
           /\ Occurrences(last.events, "compare") <= 1
           /\ Occurrences(last.events, "forward") <= 1
           /\ Len(last.fwd) <= 1
           /\ last.fwd # <<>> => last.fwd[1].kind = first
           /\ first = "unknown" => Len(last.events) = 2
           /\ first = "sctp" =>
                  \A i \in 1..Len(last.events) :
                      last.events[i] \notin {"decrypt", "decryptFailed", "parse",
                                             "parseFailed", "parseForLog"}
           /\ first # "rtp" => Occurrences(last.events, "parseForLog") = 0

\* a datagram that all three classifiers match was forwarded as RTCP
C19_Witness ==
    \E t \in transports :
        /\ last.op = "receive" /\ last.t = t
        /\ last.dgram[1].data.rtcp
        /\ last.dgram[1].data.rtp
        /\ last.dgram[1].data.sctp
        /\ last.fwd # <<>>
        /\ last.fwd[1].kind = "rtcp"

\* the stages of a connect that resolve the validated ip and port into a
\* network address: the dispatch on the address family and the conversion
ResolutionStages == {"family", "uv"}

\* C20: a connect that fails while resolving the address, after ip and port
\* passed validation, aborts the process, whether the failure is in the
\* dispatch on the address family or in the conversion; it never ends as an
\* error thrown to the caller.
C20_ResolutionFailureIsFatal ==
    (last.op = "connect" /\ last.stage \in ResolutionStages) =>
        /\ ValidateIpPort(last.req) = ""
        /\ last.err = "abort"
        /\ aborted

\* C20, as the code has it: a failed conversion of ip and port into a network
\* address aborts the process; an address family that is neither AF_INET nor
\* AF_INET6 makes the connect throw an Error to the caller, after which the
\* transport has no tuple and no session, has accepted and notified nothing,
\* and accepts every valid request made next.
C20_ResolutionFailureOutcome ==
    \A t \in transports :
        (last.op = "connect" /\ last.t = t /\ last.stage \in ResolutionStages) =>
            /\ ValidateIpPort(last.req) = ""
            /\ last.response = <<>>
            /\ last.events = <<>>
            /\ tuple[t] = <<>>
            /\ accepted[t] = <<>>
            /\ connectedCalls[t] = 0
            /\ IF last.stage = "uv"
               THEN last.err = "abort" /\ aborted
               ELSE /\ last.err = "Error"
                    /\ ~aborted
                    /\ srtpSendSession[t] = <<>>
                    /\ srtpRecvSession[t] = <<>>
                    /\ \A req \in Requests :
                           ValidRequest(t, req) =>
                               LET r == ConnectResult(t, req, "none")
                               IN r.thrown = "" /\ ~r.abort /\ r.tuple # <<>>

\* on a transport with SRTP, a connect with a valid ip, port and key threw an
\* Error at the dispatch on the address family, after both sessions were
\* created
C20_Witness ==
    \E t \in transports :
        /\ last.op = "connect" /\ last.t = t /\ last.stage = "family"
        /\ last.err = "Error"
        /\ srtpKey[t] # NoKey
        /\ ValidRequest(t, last.req)
        /\ ~aborted

====
